---- MODULE Spec2Model ----
(***************************************************************************)
(* Model of the quiz analyzer's hotkey-activated action sequence.          *)
(*                                                                         *)
(* Two threads act on the state.  The pynput listener thread runs          *)
(* HotkeyService.on_key_press / on_key_release and, from the latter,       *)
(* trigger_action_sequence.  The Qt main thread runs the event loop: the   *)
(* single-shot timers (start_capture, start_claude_analysis,               *)
(* _send_to_claude_async, start_email_sending, _send_email_async), the     *)
(* completion slots, which Qt calls synchronously inside emit(), and the   *)
(* button handlers.                                                        *)
(*                                                                         *)
(* A main-thread handler is one action, except where it writes             *)
(* sequence_in_progress twice with a collaborator call in between: the     *)
(* listener thread can read and write the flag between the two writes, so  *)
(* the second write is a step of its own that main_pc forces to come next  *)
(* on the main thread.                                                     *)
(*                                                                         *)
(* Two wirings of the same sequence exist in the source: HotkeyService     *)
(* driving MainWindow ("window"), and HotkeyManager driving the panels     *)
(* ("panels").  wiring is chosen at construction and never changes.        *)
(*                                                                         *)
(* The clock counts whole seconds; hold durations, which the settings      *)
(* dialog offers in steps of half a second, are counted in tenths.         *)
(***************************************************************************)
EXTENDS Integers, Sequences, FiniteSets, TLC

VARIABLES
    wiring,                 \* "window" | "panels"
    claude_client,          \* "None" | "client"      (set in __init__)
    email_sender,           \* "None" | "sender"      (set in __init__)
    recipients_file,        \* recipients.txt: a sequence of records
    recipients,             \* RecipientManager.recipients of a manager object
    roster,                 \* a manager's list, names and addresses as text
    recipients_txt,         \* recipients.txt as text: a sequence of lines
    sequence_in_progress,   \* the coordinator's flag
    timers,                 \* pending QTimer.singleShot callbacks
    main_pc,                \* where the main thread is
    question_text,          \* QTextEdit question_text
    response_text,          \* QTextEdit response_text
    captured_image,         \* ScreenCapture.captured_pil_image
    send_btn,               \* send_btn.isEnabled()
    log,                    \* history: per accepted sequence, what ran for it
    next_seq,               \* history: number of accepted triggers
    dropped,                \* history: the last trigger call was ignored
    clicks,                 \* history: number of user actions so far
    now,                    \* wall clock, seconds
    key_press_times,        \* HotkeyService.key_press_times
    config,                 \* HotkeyService.config: the parser's Hotkeys section
    config_file,            \* hotkey_config.ini
    running,                \* HotkeyService.running
    listener,               \* HotkeyService.listener: "None" | "Listener"
    listeners,              \* history: listener threads started and not stopped
    held,                   \* history: the digit keys that are physically down
    last_press,             \* history: what the last on_key_press was given
    last_release            \* history: what the last on_key_release did

textVars == <<roster, recipients_txt>>
envVars == <<wiring, claude_client, email_sender, recipients_file, recipients,
             textVars>>
uiVars  == <<sequence_in_progress, timers, question_text, response_text,
             captured_image, send_btn, log>>
seqVars == <<uiVars, main_pc, next_seq, dropped, clicks>>
svcVars == <<running, listener, listeners>>
keyVars == <<now, key_press_times, config, config_file, svcVars, held,
             last_press, last_release>>
vars    == <<envVars, seqVars, keyVars>>

----------------------------------------------------------------------------
\* Bounds of the model.

\* accepted triggers per behaviour
MaxTriggers == 2
\* pending timers a button click may add to
MaxTimers == 1
\* button clicks and text edits per behaviour
MaxClicks == 1
\* lines of recipients.txt
MaxStore == 2
\* seconds the wall clock advances
MaxElapsed == 3
\* the largest hold duration the settings offer, seconds
MaxHold == 2
\* the digit keys the keyboard sends are "0" .. MaxDigit
MaxDigit == 1

\* HotkeyConfig.DEFAULT_HOLD_DURATION
DEFAULT_HOLD_DURATION == 2

----------------------------------------------------------------------------
\* Recipients (gui/recipient_manager.py).

\* Addresses that match Recipient._validate_email's pattern.
ValidEmails == {"al@x.com", "cy@x.com", "di@x.com"}

validate_email(email) == email \in ValidEmails

Book == << [name |-> "Al", email |-> "al@x.com",     checked |-> TRUE],
           [name |-> "Cy", email |-> "cy@x.com",     checked |-> TRUE],
           [name |-> "Bo", email |-> "not-an-email", checked |-> TRUE],
           [name |-> "Di", email |-> "di@x.com",     checked |-> FALSE] >>

Min(a, b) == IF a < b THEN a ELSE b

Stores == { SubSeq(Book, 1, n) : n \in 0 .. Min(MaxStore, Len(Book)) }

\* recipients.txt with any run of at most MaxStore lines of the book.
Slices == { SubSeq(Book, run[1], run[2]) :
              run \in { r \in (1 .. Len(Book)) \X (0 .. Len(Book)) :
                          r[1] - 1 <= r[2] /\ r[2] - r[1] < MaxStore } }

RECURSIVE FilterSeq(_, _)
FilterSeq(s, keep) ==
    IF s = << >> THEN << >>
    ELSE (IF keep[Head(s)] THEN << Head(s) >> ELSE << >>) \o FilterSeq(Tail(s), keep)

\* Recipient.__init__: the validity flag is computed once, from the address.
Recipient(name, email, checked) ==
    [name |-> name, email |-> email, checked |-> checked,
     valid |-> validate_email(email)]

\* RecipientManager.__init__ and load_recipients: one Recipient per line.
load_recipients(file) ==
    [i \in DOMAIN file |-> Recipient(file[i].name, file[i].email, file[i].checked)]

\* save_recipients: one line per recipient, without the validity flag.
save_recipients(list) ==
    [i \in DOMAIN list |->
        [name |-> list[i].name, email |-> list[i].email, checked |-> list[i].checked]]

\* get_checked_recipients without the test of the checkbox
get_checked_recipients_valid_only(list) ==
    LET keep == [r \in {list[i] : i \in DOMAIN list} |-> r.valid]
    IN FilterSeq(list, keep)

\* get_checked_recipients without the test of the validity flag
get_checked_recipients_checked_only(list) ==
    LET keep == [r \in {list[i] : i \in DOMAIN list} |-> r.checked]
    IN FilterSeq(list, keep)

get_checked_recipients(list) ==
    LET keep == [r \in {list[i] : i \in DOMAIN list} |-> r.checked /\ r.valid]
    IN FilterSeq(list, keep)

\* The first recipient with this address, 0 when there is none.
FirstWith(list, email) ==
    LET at == { i \in DOMAIN list : list[i].email = email }
    IN IF at = {} THEN 0 ELSE CHOOSE i \in at : \A j \in at : i <= j

\* add_recipient: an existing address is updated in memory and revalidated,
\* a new one is appended and the list is saved.
add_recipient(list, file, name, email, checked) ==
    LET i == FirstWith(list, email)
    IN IF i # 0
       THEN [recipients |-> [list EXCEPT ![i] = [@ EXCEPT !.name = name,
                                                          !.checked = checked,
                                                          !.valid = validate_email(list[i].email)]],
             file |-> file]
       ELSE LET new == Append(list, Recipient(name, email, checked))
            IN [recipients |-> new, file |-> save_recipients(new)]

\* update_recipient_status: the first recipient with the address gets the
\* flag and the list is saved; an unknown address changes nothing.
update_recipient_status(list, file, email, checked) ==
    LET i == FirstWith(list, email)
    IN IF i # 0
       THEN LET new == [list EXCEPT ![i].checked = checked]
            IN [recipients |-> new, file |-> save_recipients(new)]
       ELSE [recipients |-> list, file |-> file]

----------------------------------------------------------------------------
\* The main-thread state as a record, so that a handler and the slots it
\* calls synchronously compose as functions.

State == [ sequence_in_progress |-> sequence_in_progress,
           timers               |-> timers,
           question_text        |-> question_text,
           response_text        |-> response_text,
           captured_image       |-> captured_image,
           send_btn             |-> send_btn,
           log                  |-> log ]

\* A sequence is in flight while one of its callbacks is pending or the
\* main thread is inside one of its handlers.
InFlight(seq) ==
    \/ \E i \in DOMAIN timers : timers[i].seq = seq
    \/ main_pc.seq = seq

\* The history notes, per sequence, the stage operations, the collaborator
\* calls (ok: what the call returned), the completion slots (ok: the
\* signal's argument), ask_question (ok: the API call worked),
\* _send_email_async (ok: the mail went out) and the modal dialogs.
\* The history of a sequence is kept while it is in flight and in the state
\* that follows its last step; nothing can be added to it after that.
Forget(l) == [seq \in DOMAIN l |-> IF l[seq] # << >> /\ ~InFlight(seq) THEN << >> ELSE l[seq]]

Commit(s) ==
    /\ sequence_in_progress' = s.sequence_in_progress
    /\ timers'               = s.timers
    /\ question_text'        = s.question_text
    /\ response_text'        = s.response_text
    /\ captured_image'       = s.captured_image
    /\ send_btn'             = s.send_btn
    /\ log'                  = Forget(s.log)

Idle == [at |-> "idle", seq |-> 0, i |-> 0]

At(place, seq, i) == [at |-> place, seq |-> seq, i |-> i]

\* History: seq 0 is the user (a button), 1.. are the accepted triggers.
Note(s, seq, op, ok) ==
    IF seq = 0 THEN s
    ELSE [s EXCEPT !.log[seq] = Append(@, [op |-> op, ok |-> ok])]

\* QMessageBox.critical / warning / information: a modal dialog.
QMessageBox(s, seq) == Note(s, seq, "QMessageBox", TRUE)

\* QTimer.singleShot(delay, fn)
singleShot(s, delay, fn, seq, emit_signal) ==
    [s EXCEPT !.timers = Append(@, [fn |-> fn, delay |-> delay, seq |-> seq,
                                    emit_signal |-> emit_signal])]

----------------------------------------------------------------------------
\* The coordinator's slots (hotkey_service.py, hotkey_manager.py).

\* on_email_completed resetting the flag only when the mail went out
on_email_completed_on_success_only(s, seq, success) ==
    [Note(s, seq, "on_email_completed", success)
        EXCEPT !.sequence_in_progress = IF success THEN FALSE ELSE @]

on_email_completed(s, seq, success) ==
    [Note(s, seq, "on_email_completed", success)
        EXCEPT !.sequence_in_progress = FALSE]

\* on_claude_completed going on to the email stage whatever the signal says
on_claude_completed_ignores_failure(s, seq, success) ==
    singleShot(Note(s, seq, "on_claude_completed", success),
               100, "start_email_sending", seq, TRUE)

on_claude_completed(s, seq, success) ==
    LET s1 == Note(s, seq, "on_claude_completed", success)
    IN IF ~success
       THEN [s1 EXCEPT !.sequence_in_progress = FALSE]
       ELSE singleShot(s1, 100, "start_email_sending", seq, TRUE)

\* QuestionPanel.process_image
process_image(s, seq, ocr) ==
    IF s.captured_image = "None"
    THEN [st |-> [s EXCEPT !.question_text = "No image captured yet"], ret |-> FALSE]
    ELSE CASE ocr = "text" ->
                [st |-> [s EXCEPT !.question_text = "ocr text"], ret |-> TRUE]
           [] ocr = "none" ->
                [st |-> [s EXCEPT !.question_text = "No text found in the image"],
                 ret |-> FALSE]
           [] OTHER ->
                [st |-> [s EXCEPT !.question_text = "Failed to process image"],
                 ret |-> FALSE]

\* on_capture_completed without the return that follows the reset
HS_on_capture_completed_no_return(s, seq, success) ==
    LET s1 == Note(s, seq, "on_capture_completed", success)
        s2 == IF ~success THEN [s1 EXCEPT !.sequence_in_progress = FALSE] ELSE s1
    IN singleShot(s2, 100, "start_claude_analysis", seq, TRUE)

\* HotkeyService.on_capture_completed
HS_on_capture_completed(s, seq, success) ==
    LET s1 == Note(s, seq, "on_capture_completed", success)
    IN IF ~success
       THEN [s1 EXCEPT !.sequence_in_progress = FALSE]
       ELSE singleShot(s1, 100, "start_claude_analysis", seq, TRUE)

\* HotkeyManager.on_capture_completed
HM_on_capture_completed(s, seq, success, ocr) ==
    LET s1 == Note(s, seq, "on_capture_completed", success)
    IN IF ~success
       THEN [s1 EXCEPT !.sequence_in_progress = FALSE]
       ELSE LET p == process_image(s1, seq, ocr)
                s2 == Note(p.st, seq, "process_image", p.ret)
            IN IF ~p.ret
               THEN [s2 EXCEPT !.sequence_in_progress = FALSE]
               ELSE singleShot(s2, 100, "start_claude_analysis", seq, TRUE)

on_capture_completed(s, seq, success, ocr) ==
    IF wiring = "window" THEN HS_on_capture_completed(s, seq, success)
    ELSE HM_on_capture_completed(s, seq, success, ocr)

----------------------------------------------------------------------------
\* The collaborators (app_window.py, capture_panel.py, response_panel.py).

\* ScreenCapture.capture_screen: every call grabs a new image; the history
\* tells an image a button press captured from one a sequence captured.
Image(seq) == IF seq = 0 THEN "user image" ELSE "image"

\* MainWindow.process_captured_image
process_captured_image(s, seq, ocr) ==
    IF s.captured_image = "None"
    THEN [s EXCEPT !.question_text = "No image captured yet"]
    ELSE CASE ocr = "text" -> [s EXCEPT !.question_text = "ocr text"]
           [] ocr = "none" -> [s EXCEPT !.question_text = "No text found in the image"]
           [] OTHER -> [QMessageBox(s, seq)
                            EXCEPT !.question_text = "Error processing image"]

\* MainWindow.capture_screen
MW_capture_screen(s, seq, emit_signal, cap, ocr) ==
    LET success == (cap = "ok")
        s0 == Note(s, seq, "capture_screen", success)
        s1 == IF success
              THEN process_captured_image([s0 EXCEPT !.captured_image = Image(seq)],
                                          seq, ocr)
              ELSE QMessageBox(s0, seq)
        s2 == IF emit_signal THEN on_capture_completed(s1, seq, success, ocr) ELSE s1
    IN [st |-> s2, ret |-> success]

\* CapturePanel.capture_screen
CP_capture_screen(s, seq, emit_signal, cap, ocr) ==
    LET success == (cap = "ok")
        s0 == Note(s, seq, "capture_screen", success)
        s1 == IF success THEN [s0 EXCEPT !.captured_image = Image(seq)] ELSE s0
        s2 == IF emit_signal THEN on_capture_completed(s1, seq, success, ocr) ELSE s1
    IN [st |-> s2, ret |-> success]

capture_screen(s, seq, emit_signal, cap, ocr) ==
    IF wiring = "window" THEN MW_capture_screen(s, seq, emit_signal, cap, ocr)
    ELSE CP_capture_screen(s, seq, emit_signal, cap, ocr)

\* MainWindow.send_to_claude / ResponsePanel.send_to_claude
send_to_claude(s, seq, emit_signal) ==
    LET started == ~(claude_client = "None" \/ s.question_text = "")
        s0 == Note(s, seq, "send_to_claude", started)
    IN IF ~started
       THEN LET s1 == QMessageBox(s0, seq)
                s2 == IF emit_signal THEN on_claude_completed(s1, seq, FALSE) ELSE s1
            IN [st |-> s2, ret |-> FALSE]
       ELSE [st |-> singleShot([s0 EXCEPT !.send_btn = FALSE,
                                          !.response_text = "Sending to Claude"],
                               100, "_send_to_claude_async", seq, emit_signal),
             ret |-> TRUE]

\* ClaudeClient.ask_question: every failure of the API call is caught and
\* returned as text; nothing is raised.
ask_question(outcome) ==
    CASE outcome = "ok"        -> [raised |-> FALSE, text |-> "answer"]
      [] outcome = "api_error" -> [raised |-> FALSE, text |-> "API Error"]
      [] OTHER                 -> [raised |-> FALSE, text |-> "Request timed out"]

\* MainWindow._send_to_claude_async / ResponsePanel._send_to_claude_async
send_to_claude_async(s, seq, emit_signal, outcome) ==
    LET r == ask_question(outcome)
        s0 == Note(s, seq, "ask_question", outcome = "ok")
        success == ~r.raised
        s1 == IF success THEN [s0 EXCEPT !.response_text = r.text]
              ELSE [QMessageBox(s0, seq)
                        EXCEPT !.response_text = "Error communicating with Claude"]
        s2 == [s1 EXCEPT !.send_btn = TRUE]
    IN IF emit_signal THEN on_claude_completed(s2, seq, success) ELSE s2

\* EmailSender.send_quiz_answer inside _send_email_async: SMTP errors are
\* returned as (False, message); _send_email_async catches the rest.
send_email_async(s, seq, show_dialog, emit_signal, mail) ==
    LET success == (mail = "ok")
        s0 == Note(s, seq, "_send_email_async", success)
        s1 == IF show_dialog THEN QMessageBox(s0, seq) ELSE s0
    IN IF emit_signal THEN on_email_completed(s1, seq, success) ELSE s1

\* send_by_email up to the silent-mode loop over the recipients.
\* ret is "False", "True" or "loop" (the loop is entered).
\* dlg: what the user does with the EmailDialog, "accept" or "reject".
send_by_email(s, seq, show_dialog, emit_signal, dlg) ==
    LET started ==
            /\ ~(email_sender = "None" \/ s.question_text = "" \/ s.response_text = "")
            /\ IF show_dialog THEN dlg = "accept"
               ELSE get_checked_recipients(load_recipients(recipients_file)) # << >>
        s0 == Note(s, seq, "send_by_email", started)
    IN IF email_sender = "None" \/ s0.question_text = "" \/ s0.response_text = ""
       THEN LET s1 == IF show_dialog THEN QMessageBox(s0, seq) ELSE s0
            IN [st |-> on_email_completed(s1, seq, FALSE), ret |-> "False"]
       ELSE IF show_dialog
       THEN IF dlg = "accept"
            THEN LET n == Len(get_checked_recipients(load_recipients(recipients_file)))
                     sched[k \in 0 .. n] ==
                        IF k = 0 THEN s0
                        ELSE singleShot(sched[k - 1], 100, "_send_email_async", seq, FALSE)
                 IN [st |-> sched[n], ret |-> "True"]
            ELSE [st |-> IF wiring = "window" \/ emit_signal
                         THEN on_email_completed(s0, seq, FALSE) ELSE s0,
                  ret |-> "False"]
       ELSE IF get_checked_recipients(load_recipients(recipients_file)) = << >>
            THEN [st |-> on_email_completed(s0, seq, FALSE), ret |-> "False"]
            ELSE [st |-> s0, ret |-> "loop"]

----------------------------------------------------------------------------
\* The coordinator's operations.

\* trigger_action_sequence calling start_capture itself instead of handing
\* it to the event loop
trigger_action_sequence_inline(s, seq) ==
    IF s.sequence_in_progress THEN s
    ELSE capture_screen(Note([s EXCEPT !.sequence_in_progress = TRUE],
                             seq, "start_capture", TRUE),
                        seq, TRUE, "ok", "text").st

\* trigger_action_sequence without the re-entrancy guard
trigger_action_sequence_unguarded(s, seq) ==
    singleShot([s EXCEPT !.sequence_in_progress = TRUE], 0, "start_capture", seq, TRUE)

\* trigger_action_sequence, called on the listener thread.  seq is the
\* history name the sequence gets if the trigger is accepted.
trigger_action_sequence(s, seq) ==
    IF s.sequence_in_progress THEN s
    ELSE singleShot([s EXCEPT !.sequence_in_progress = TRUE],
                    0, "start_capture", seq, TRUE)

\* start_capture up to the return of capture_screen
start_capture(s, seq, cap, ocr) ==
    LET r == capture_screen(Note(s, seq, "start_capture", TRUE), seq, TRUE, cap, ocr)
    IN [st |-> r.st,
        pc |-> IF r.ret THEN Idle ELSE At("start_capture", seq, 0)]

\* start_claude_analysis up to the return of send_to_claude
start_claude_analysis(s, seq) ==
    LET r == send_to_claude(Note(s, seq, "start_claude_analysis", TRUE), seq, TRUE)
    IN [st |-> r.st,
        pc |-> IF r.ret THEN Idle ELSE At("start_claude_analysis", seq, 0)]

\* start_email_sending up to the return of send_by_email, or to its loop
start_email_sending(s, seq) ==
    LET r == send_by_email(Note(s, seq, "start_email_sending", TRUE),
                           seq, FALSE, TRUE, "reject")
    IN [st |-> r.st,
        pc |-> IF r.ret = "loop" THEN At("send_by_email", seq, 1)
               ELSE At("start_email_sending", seq, 0)]

\* The "if not success: self.sequence_in_progress = False" that ends
\* start_capture, start_claude_analysis and start_email_sending.
failed_to_start(s) == [s EXCEPT !.sequence_in_progress = FALSE]

----------------------------------------------------------------------------
\* The listener (hotkey_service.py, hotkey_config.py).

\* HotkeyService.number_keys
number_keys == { ToString(d) : d \in 0 .. 9 }

\* What the keyboard sends: character keys, and keys without a char.
DigitKeys   == { ToString(d) : d \in 0 .. MaxDigit }
CharKeys    == DigitKeys \cup {"a"}
SpecialKeys == {"shift"}
Keys        == CharKeys \cup SpecialKeys

\* The value of an option is a text: a sequence of characters.
TextTrue  == << "t", "r", "u", "e" >>
TextFalse == << "f", "a", "l", "s", "e" >>

\* config.get on an option the section does not have: NoOptionError
NoOption == << "NoOptionError" >>

\* Seconds as tenths of a second.
Tenths(seconds) == 10 * seconds

\* str(n) of a natural number
RECURSIVE Str(_)
Str(n) == IF n < 10 THEN << ToString(n) >> ELSE Str(n \div 10) \o << ToString(n % 10) >>

\* str(duration) of the float the settings dialog hands to set_hold_duration,
\* d tenths of a second: "0.5", "2.0", "10.0"
StrFloat(d) == Str(d \div 10) \o << "." >> \o Str(d % 10)

IsDigit(c) == c \in { ToString(d) : d \in 0 .. 9 }

DigitVal(c) == CHOOSE d \in 0 .. 9 : ToString(d) = c

\* int(digits)
RECURSIVE NatOf(_)
NatOf(s) ==
    IF s = << >> THEN 0
    ELSE 10 * NatOf(SubSeq(s, 1, Len(s) - 1)) + DigitVal(s[Len(s)])

AllDigits(s) == \A i \in DOMAIN s : IsDigit(s[i])

\* float(text), in tenths, or -1 for ValueError.  Unsigned decimals with at
\* most one digit after the point, which is what the texts used here have.
ParseFloat(text) ==
    LET dots == { i \in DOMAIN text : text[i] = "." }
    IN IF dots = {}
       THEN IF text # << >> /\ AllDigits(text) THEN Tenths(NatOf(text)) ELSE -1
       ELSE LET p    == CHOOSE i \in dots : TRUE
                int  == SubSeq(text, 1, p - 1)
                frac == SubSeq(text, p + 1, Len(text))
            IN IF /\ Cardinality(dots) = 1
                  /\ AllDigits(int) /\ AllDigits(frac)
                  /\ Len(int) + Len(frac) > 0
                  /\ Len(frac) <= 1
               THEN Tenths(NatOf(int)) + NatOf(frac)
               ELSE -1

\* config.get interpolates the value it returns: a "%" that is not followed
\* by "%" or "(" raises InterpolationSyntaxError.
InterpolationError(text) ==
    /\ text # NoOption
    /\ \E i \in DOMAIN text :
          /\ text[i] = "%"
          /\ (i = Len(text) \/ text[i + 1] \notin {"%", "("})

\* HotkeyConfig.get_hold_duration raises: only NoOptionError and ValueError
\* are caught.
get_hold_duration_raises(cfg) == InterpolationError(cfg.hold_duration)

\* HotkeyConfig.get_hold_duration, in tenths, when it returns
get_hold_duration(cfg) ==
    IF cfg.hold_duration = NoOption \/ ParseFloat(cfg.hold_duration) = -1
    THEN Tenths(DEFAULT_HOLD_DURATION)
    ELSE ParseFloat(cfg.hold_duration)

\* str.lower, on the letters the texts used here have
LowerChar(c) ==
    CASE c = "T" -> "t" [] c = "R" -> "r" [] c = "U" -> "u" [] c = "E" -> "e"
      [] c = "F" -> "f" [] c = "A" -> "a" [] c = "L" -> "l" [] c = "S" -> "s"
      [] OTHER -> c

lower(text) == [i \in DOMAIN text |-> LowerChar(text[i])]

\* HotkeyConfig.is_enabled raises: only NoOptionError is caught.
is_enabled_raises(cfg) == InterpolationError(cfg.enabled)

\* HotkeyConfig.is_enabled, when it returns
is_enabled(cfg) ==
    IF cfg.enabled = NoOption THEN TRUE ELSE lower(cfg.enabled) = TextTrue

\* HotkeyConfig.set_defaults
set_defaults == [enabled |-> TextTrue, hold_duration |-> Str(DEFAULT_HOLD_DURATION)]

\* hotkey_config.ini: missing, not parseable, without a Hotkeys section, or
\* with one.
Ini(section) == [kind |-> "ini", section |-> section]

NoFile == [kind |-> "missing", section |-> set_defaults]

Garbage == [kind |-> "garbage", section |-> set_defaults]

NoSection == [kind |-> "no_section", section |-> set_defaults]

\* HotkeyConfig.save_config: ok is whether the file could be written
save_config(file, cfg, ok) == IF ok THEN Ini(cfg) ELSE file

\* HotkeyConfig.load_config, as __init__ calls it: the section the new
\* object holds, and the file afterwards.
load_config(file) ==
    IF file.kind = "ini"
    THEN [cfg |-> file.section, file |-> file]
    ELSE [cfg |-> set_defaults, file |-> save_config(file, set_defaults, TRUE)]

\* HotkeyConfig.set_enabled: the section afterwards
set_enabled(cfg, enabled) ==
    [cfg EXCEPT !.enabled = IF enabled THEN TextTrue ELSE TextFalse]

\* set_hold_duration writing str(int(duration))
set_hold_duration_truncated(cfg, duration) ==
    [cfg EXCEPT !.hold_duration = Str(duration \div 10)]

\* HotkeyConfig.set_hold_duration: the section afterwards
set_hold_duration(cfg, duration) ==
    [cfg EXCEPT !.hold_duration = StrFloat(duration)]

\* datetime.now().minute
MinuteOf(t) == (t \div 60) % 60

\* HotkeyConfig.get_activation_key
get_activation_key(t) == ToString(MinuteOf(t) % 10)

\* on_key_press recording the time of every key-down of a digit key
on_key_press_overwrites(cfg, kpt, key, t) ==
    IF is_enabled_raises(cfg) \/ ~is_enabled(cfg) THEN kpt
    ELSE IF key \in SpecialKeys THEN kpt
    ELSE IF key \in number_keys
         THEN [k \in DOMAIN kpt \cup {key} |-> IF k = key THEN t ELSE kpt[k]]
         ELSE kpt

\* on_key_press recording every character key
on_key_press_any_char(cfg, kpt, key, t) ==
    IF is_enabled_raises(cfg) \/ ~is_enabled(cfg) THEN kpt
    ELSE IF key \in SpecialKeys THEN kpt
    ELSE IF key \notin DOMAIN kpt
         THEN [k \in DOMAIN kpt \cup {key} |-> IF k = key THEN t ELSE kpt[k]]
         ELSE kpt

\* HotkeyService.on_key_press: the new key_press_times
on_key_press(cfg, kpt, key, t) ==
    IF is_enabled_raises(cfg) \/ ~is_enabled(cfg) THEN kpt
    ELSE IF key \in SpecialKeys THEN kpt
    ELSE IF key \in number_keys /\ key \notin DOMAIN kpt
         THEN [k \in DOMAIN kpt \cup {key} |-> IF k = key THEN t ELSE kpt[k]]
         ELSE kpt

\* hold_qualifies without the comparison with the activation key
hold_qualifies_any_key(cfg, key, hold_duration, t) ==
    /\ ~get_hold_duration_raises(cfg)
    /\ Tenths(hold_duration) >= get_hold_duration(cfg)

\* hold_qualifies with a strict comparison
hold_qualifies_strict(cfg, key, hold_duration, t) ==
    /\ key = get_activation_key(t)
    /\ ~get_hold_duration_raises(cfg)
    /\ Tenths(hold_duration) > get_hold_duration(cfg)

\* Whether a released key that was tracked calls trigger_action_sequence.
hold_qualifies(cfg, key, hold_duration, t) ==
    /\ key = get_activation_key(t)
    /\ ~get_hold_duration_raises(cfg)
    /\ Tenths(hold_duration) >= get_hold_duration(cfg)

\* on_key_release taking the activation key of the minute of the press
on_key_release_key_at_press(cfg, kpt, key, t) ==
    IF \/ is_enabled_raises(cfg) \/ ~is_enabled(cfg)
       \/ key \in SpecialKeys \/ key \notin DOMAIN kpt
    THEN [kpt |-> kpt, tracked |-> FALSE, hold |-> 0, trigger |-> FALSE]
    ELSE [kpt     |-> [k \in DOMAIN kpt \ {key} |-> kpt[k]],
          tracked |-> TRUE,
          hold    |-> t - kpt[key],
          trigger |-> /\ key = get_activation_key(kpt[key])
                      /\ Tenths(t - kpt[key]) >= get_hold_duration(cfg)]

\* HotkeyService.on_key_release: the new key_press_times, and whether
\* trigger_action_sequence is called.
on_key_release(cfg, kpt, key, t) ==
    IF \/ is_enabled_raises(cfg) \/ ~is_enabled(cfg)
       \/ key \in SpecialKeys \/ key \notin DOMAIN kpt
    THEN [kpt |-> kpt, tracked |-> FALSE, hold |-> 0, trigger |-> FALSE]
    ELSE [kpt     |-> [k \in DOMAIN kpt \ {key} |-> kpt[k]],
          tracked |-> TRUE,
          hold    |-> t - kpt[key],
          trigger |-> hold_qualifies(cfg, key, t - kpt[key], t)]

----------------------------------------------------------------------------
\* Actions of the listener thread.

\* last_release tells what on_key_release did, in the state that follows it.
NoRelease == [key |-> "", tracked |-> FALSE, hold |-> 0, trigger |-> FALSE]

\* last_press tells which key the last on_key_press was given, in the state
\* that follows it, and whether the key went down then (fresh) or was
\* already down (the keyboard's auto-repeat).
NoPress == [key |-> "", fresh |-> FALSE]

\* A call of trigger_action_sequence.
Trigger ==
    /\ sequence_in_progress \/ next_seq < MaxTriggers
    /\ Commit(trigger_action_sequence(State, next_seq + 1))
    /\ next_seq' = IF sequence_in_progress THEN next_seq ELSE next_seq + 1
    /\ dropped' = sequence_in_progress
    /\ UNCHANGED <<main_pc, clicks>>

TriggerActionSequence ==
    /\ Trigger
    /\ UNCHANGED <<envVars, keyVars>>

OnKeyPress ==
    \E key \in Keys :
        /\ running
        /\ key_press_times' = on_key_press(config, key_press_times, key, now)
        /\ held' = IF key \in number_keys THEN held \cup {key} ELSE held
        /\ last_press' = [key |-> key, fresh |-> key \in number_keys /\ key \notin held]
        /\ last_release' = NoRelease
        /\ UNCHANGED <<envVars, seqVars, now, config, config_file, svcVars>>

OnKeyRelease ==
    \E key \in Keys :
        LET r == on_key_release(config, key_press_times, key, now)
        IN /\ running
           /\ key \in number_keys => key \in held
           /\ held' = held \ {key}
           /\ key_press_times' = r.kpt
           /\ last_press' = NoPress
           /\ last_release' = [key |-> key, tracked |-> r.tracked,
                               hold |-> r.hold, trigger |-> r.trigger]
           /\ IF r.trigger THEN Trigger ELSE UNCHANGED seqVars
           /\ UNCHANGED <<envVars, now, config, config_file, svcVars>>

\* The wall clock advances by a second.
InWindow(t) == (t % 60) >= 58 \/ (t % 60) + 2 < MaxElapsed

Tick ==
    /\ InWindow(now + 1)
    /\ now' = now + 1
    /\ last_press' = NoPress
    /\ last_release' = NoRelease
    /\ UNCHANGED <<envVars, seqVars, key_press_times, config, config_file, svcVars, held>>

\* The service's listener state as a record.
Service == [running |-> running, listener |-> listener, listeners |-> listeners]

\* start without the test of the running flag
start_unguarded(svc) ==
    [running |-> TRUE, listener |-> "Listener", listeners |-> svc.listeners + 1]

\* HotkeyService.start: a running service returns at once; otherwise a new
\* keyboard.Listener is built and its thread started.
start(svc) ==
    IF svc.running THEN svc
    ELSE [running |-> TRUE, listener |-> "Listener", listeners |-> svc.listeners + 1]

\* HotkeyService.stop: the listener, if there is one, is stopped and dropped.
stop(svc) ==
    [running |-> FALSE,
     listener |-> "None",
     listeners |-> IF svc.listener # "None" THEN svc.listeners - 1 ELSE svc.listeners]

\* HotkeyService.start, also through HotkeyManager.start
Start ==
    /\ running' = start(Service).running
    /\ listener' = start(Service).listener
    /\ listeners' = start(Service).listeners
    /\ last_press' = NoPress
    /\ UNCHANGED <<envVars, seqVars, now, key_press_times, config, config_file,
                   held, last_release>>

\* HotkeyService.stop, also through HotkeyManager.stop
Stop ==
    /\ running' = stop(Service).running
    /\ listener' = stop(Service).listener
    /\ listeners' = stop(Service).listeners
    /\ last_press' = NoPress
    /\ UNCHANGED <<envVars, seqVars, now, key_press_times, config, config_file,
                   held, last_release>>

\* A digit key goes down or up while the listener is stopped: no handler runs.
Unseen ==
    \E key \in DigitKeys :
        /\ ~running
        /\ held' = IF key \in held THEN held \ {key} ELSE held \cup {key}
        /\ UNCHANGED <<envVars, seqVars, now, key_press_times, config, config_file,
                       svcVars, last_press, last_release>>

\* What the settings dialog's spinner offers: 0.5 s to MaxHold s in steps of
\* 0.5 s, in tenths.
Durations == { 5 * n : n \in 1 .. 2 * MaxHold }

\* HotkeyConfig.set_enabled(enabled) on the config object; it returns ok,
\* whether the file could be written.
SetEnabledTo(enabled, ok) ==
    /\ config' = set_enabled(config, enabled)
    /\ config_file' = save_config(config_file, config', ok)
    /\ last_press' = NoPress
    /\ UNCHANGED <<envVars, seqVars, now, key_press_times, svcVars, held,
                   last_release>>

\* HotkeyConfig.set_hold_duration(duration) on the config object; it returns
\* ok, whether the file could be written.
SetHoldDurationTo(duration, ok) ==
    /\ config' = set_hold_duration(config, duration)
    /\ config_file' = save_config(config_file, config', ok)
    /\ last_press' = NoPress
    /\ UNCHANGED <<envVars, seqVars, now, key_press_times, svcVars, held,
                   last_release>>

\* The enabled flag of the service's config object changes, the file being
\* writable.
SetEnabled ==
    \E enabled \in BOOLEAN :
        /\ is_enabled(config) # enabled
        /\ SetEnabledTo(enabled, TRUE)

\* The setters of a HotkeyConfig object.
ConfigSetEnabled ==
    \E enabled \in BOOLEAN, ok \in BOOLEAN : SetEnabledTo(enabled, ok)

ConfigSetHoldDuration ==
    \E duration \in Durations, ok \in BOOLEAN : SetHoldDurationTo(duration, ok)

\* HotkeyConfig.__init__: a new object on the same file takes the place of
\* the old one.
Construct ==
    /\ config' = load_config(config_file).cfg
    /\ config_file' = load_config(config_file).file
    /\ last_press' = NoPress
    /\ UNCHANGED <<envVars, seqVars, now, key_press_times, svcVars, held,
                   last_release>>

\* HotkeySettingsDialog: __init__ builds a HotkeyConfig of its own from the
\* file, save_settings calls its set_enabled and its set_hold_duration, each
\* of which writes the file (ok1, ok2: the file could be written).  The
\* service's config object is not involved.
save_settings(file, enabled, duration, ok1, ok2) ==
    LET dialog == load_config(file)
        c1 == set_enabled(dialog.cfg, enabled)
        f1 == save_config(dialog.file, c1, ok1)
        c2 == set_hold_duration(c1, duration)
    IN save_config(f1, c2, ok2)

SaveSettings ==
    \E enabled \in BOOLEAN, duration \in Durations, ok1 \in BOOLEAN, ok2 \in BOOLEAN :
        /\ config_file' = save_settings(config_file, enabled, duration, ok1, ok2)
        /\ last_press' = NoPress
        /\ UNCHANGED <<envVars, seqVars, now, key_press_times, config, svcVars, held,
                       last_release>>

----------------------------------------------------------------------------
\* Actions of the main thread.

\* Timers of equal delay fire in the order they were set.
Eligible(i) ==
    /\ main_pc = Idle
    /\ i \in DOMAIN timers
    /\ \A j \in 1 .. i - 1 : timers[j].delay # timers[i].delay

Without(i) ==
    [State EXCEPT !.timers = SubSeq(timers, 1, i - 1) \o SubSeq(timers, i + 1, Len(timers))]

Step(s, pc) ==
    /\ Commit(s)
    /\ main_pc' = pc
    /\ UNCHANGED <<envVars, keyVars, next_seq, dropped>>

\* A handler the event loop runs for a timer or for the running sequence.
Main(s, pc) ==
    /\ Step(s, pc)
    /\ UNCHANGED clicks

\* A handler the event loop runs for the user.
UserDoes(s) ==
    /\ main_pc = Idle
    /\ clicks < MaxClicks
    /\ clicks' = clicks + 1
    /\ Step(s, Idle)

StartCapture ==
    \E i \in DOMAIN timers, cap \in {"ok", "exception"}, ocr \in {"text", "none", "exception"} :
        /\ Eligible(i)
        /\ timers[i].fn = "start_capture"
        /\ LET r == start_capture(Without(i), timers[i].seq, cap, ocr)
           IN Main(r.st, r.pc)

StartCaptureFailed ==
    /\ main_pc.at = "start_capture"
    /\ Main(failed_to_start(State), Idle)

StartClaudeAnalysis ==
    \E i \in DOMAIN timers :
        /\ Eligible(i)
        /\ timers[i].fn = "start_claude_analysis"
        /\ LET r == start_claude_analysis(Without(i), timers[i].seq)
           IN Main(r.st, r.pc)

StartClaudeAnalysisFailed ==
    /\ main_pc.at = "start_claude_analysis"
    /\ Main(failed_to_start(State), Idle)

SendToClaudeAsync ==
    \E i \in DOMAIN timers, outcome \in {"ok", "api_error", "timeout"} :
        /\ Eligible(i)
        /\ timers[i].fn = "_send_to_claude_async"
        /\ Main(send_to_claude_async(Without(i), timers[i].seq,
                                     timers[i].emit_signal, outcome), Idle)

StartEmailSending ==
    \E i \in DOMAIN timers :
        /\ Eligible(i)
        /\ timers[i].fn = "start_email_sending"
        /\ LET r == start_email_sending(Without(i), timers[i].seq)
           IN Main(r.st, r.pc)

\* One turn of send_by_email's silent-mode loop; after the last recipient
\* send_by_email returns True and start_email_sending returns.
SendByEmailLoop ==
    \E mail \in {"ok", "fail"} :
        /\ main_pc.at = "send_by_email"
        /\ Main(send_email_async(State, main_pc.seq, FALSE, TRUE, mail),
                IF main_pc.i = Len(get_checked_recipients(load_recipients(recipients_file)))
                THEN Idle
                ELSE At("send_by_email", main_pc.seq, main_pc.i + 1))

StartEmailSendingFailed ==
    /\ main_pc.at = "start_email_sending"
    /\ Main(failed_to_start(State), Idle)

\* A _send_email_async the email button scheduled.
SendEmailAsync ==
    \E i \in DOMAIN timers, mail \in {"ok", "fail"} :
        /\ Eligible(i)
        /\ timers[i].fn = "_send_email_async"
        /\ Main(send_email_async(Without(i), timers[i].seq, TRUE,
                                 timers[i].emit_signal, mail), Idle)

\* The buttons and the editable question text.  The panels' send and email
\* buttons call their slot without its required arguments, which raises
\* before anything happens; only the window's are modelled.
ClickCapture ==
    \E cap \in {"ok", "exception"}, ocr \in {"text", "none", "exception"} :
        UserDoes(capture_screen(State, 0, FALSE, cap, ocr).st)

ClickSend ==
    /\ wiring = "window"
    /\ send_btn
    /\ Len(timers) < MaxTimers
    /\ UserDoes(send_to_claude(State, 0, FALSE).st)

ClickEmail ==
    \E dlg \in {"accept", "reject"} :
        LET r == send_by_email(State, 0, TRUE, FALSE, dlg)
        IN /\ wiring = "window"
           /\ Len(r.st.timers) <= MaxTimers
           /\ UserDoes(r.st)

EditQuestion ==
    \E text \in {"", "user text"} :
        UserDoes([State EXCEPT !.question_text = text])

----------------------------------------------------------------------------
\* Specifications.

InitEnv ==
    /\ wiring \in {"window", "panels"}
    /\ claude_client \in {"None", "client"}
    /\ email_sender \in {"None", "sender"}
    /\ recipients_file \in Stores
    /\ recipients = load_recipients(recipients_file)
    /\ roster = << >>
    /\ recipients_txt = << >>

InitSeq ==
    /\ sequence_in_progress = FALSE
    /\ timers = << >>
    /\ main_pc = Idle
    /\ question_text = ""
    /\ response_text = ""
    /\ captured_image = "None"
    /\ send_btn = TRUE
    /\ log = [s \in 1 .. MaxTriggers |-> << >>]
    /\ next_seq = 0
    /\ dropped = FALSE
    /\ clicks = 0

HoldTexts == { << "a", "b", "c" >> } \cup { StrFloat(Tenths(d)) : d \in 1 .. MaxHold }

\* HotkeyService.__init__ builds its config from the file.
InitKeys ==
    /\ now \in {58, 3598}
    /\ key_press_times = << >>
    /\ \E section \in [enabled : {TextTrue, TextFalse}, hold_duration : HoldTexts] :
          /\ config_file = load_config(Ini(section)).file
          /\ config = load_config(Ini(section)).cfg
    /\ running = TRUE
    /\ listener = "Listener"
    /\ listeners = 1
    /\ held = {}
    /\ last_press = NoPress
    /\ last_release = NoRelease

DefaultConfig == load_config(NoFile).cfg

\* The sequence, with the listener's calls of trigger_action_sequence taken
\* as they come.
Init ==
    /\ InitEnv
    /\ InitSeq
    /\ now = 58
    /\ key_press_times = << >>
    /\ config = DefaultConfig
    /\ config_file = load_config(NoFile).file
    /\ running = TRUE
    /\ listener = "Listener"
    /\ listeners = 1
    /\ held = {}
    /\ last_press = NoPress
    /\ last_release = NoRelease

\* The handlers the event loop runs for a triggered sequence.
Sequence ==
    \/ StartCapture
    \/ StartCaptureFailed
    \/ StartClaudeAnalysis
    \/ StartClaudeAnalysisFailed
    \/ SendToClaudeAsync
    \/ StartEmailSending
    \/ SendByEmailLoop
    \/ StartEmailSendingFailed

MainThread ==
    \/ Sequence
    \/ SendEmailAsync

User ==
    \/ ClickCapture
    \/ ClickSend
    \/ ClickEmail
    \/ EditQuestion

Next ==
    \/ TriggerActionSequence
    \/ MainThread
    \/ User

Spec == Init /\ [][Next]_vars

\* The listener: key events against the wall clock.
InitListener ==
    /\ wiring = "window"
    /\ claude_client = "client"
    /\ email_sender = "sender"
    /\ recipients_file = Book
    /\ recipients = load_recipients(recipients_file)
    /\ roster = << >>
    /\ recipients_txt = << >>
    /\ InitSeq
    /\ InitKeys

NextKeys ==
    \/ OnKeyPress
    \/ OnKeyRelease
    \/ Tick
    \/ Start
    \/ Stop

SpecKeys == InitListener /\ [][NextKeys]_vars

\* The listener with what can leave a press record behind: keys moving
\* while the listener is stopped, and the enabled flag changing.
InitStale ==
    /\ InitListener
    /\ now = 3598
    /\ config = [enabled |-> TextTrue, hold_duration |-> StrFloat(Tenths(1))]

NextStale ==
    \/ NextKeys
    \/ Unseen
    \/ SetEnabled

SpecStale == InitStale /\ [][NextStale]_vars

\* The listener with the settings dialog.
NextSettings ==
    \/ OnKeyPress
    \/ OnKeyRelease
    \/ Tick
    \/ SaveSettings

SpecSettings == InitStale /\ [][NextSettings]_vars

\* HotkeyConfig on its own: objects built from a file that the program or a
\* text editor wrote, and their setters.
EnabledTexts == { TextTrue, TextFalse, << "T", "R", "U", "E" >>, << "y", "e", "s" >>,
                  << "5", "0", "%" >>, NoOption }

StoredHoldTexts == { Str(DEFAULT_HOLD_DURATION), StrFloat(Tenths(DEFAULT_HOLD_DURATION)),
                     << "a", "b", "c" >>, << >>, << "5", "0", "%" >>, << "0" >>,
                     NoOption }

Files == { NoFile, Garbage, NoSection }
         \cup { Ini(section) : section \in [enabled : EnabledTexts,
                                            hold_duration : StoredHoldTexts] }

InitConfig ==
    /\ InitSeq
    /\ wiring = "window"
    /\ claude_client = "client"
    /\ email_sender = "sender"
    /\ recipients_file = Book
    /\ recipients = load_recipients(recipients_file)
    /\ roster = << >>
    /\ recipients_txt = << >>
    /\ now = 58
    /\ key_press_times = << >>
    /\ \E file \in Files :
          /\ config = load_config(file).cfg
          /\ config_file = load_config(file).file
    /\ running = FALSE
    /\ listener = "None"
    /\ listeners = 0
    /\ held = {}
    /\ last_press = NoPress
    /\ last_release = NoRelease

NextConfig ==
    \/ ConfigSetEnabled
    \/ ConfigSetHoldDuration
    \/ Construct

SpecConfig == InitConfig /\ [][NextConfig]_vars

\* RecipientManager on its own: a manager object and recipients.txt.
Names == {"Ed"}

Emails == { Book[i].email : i \in DOMAIN Book }

AddRecipient ==
    \E name \in Names, email \in Emails, checked \in BOOLEAN :
        LET r == add_recipient(recipients, recipients_file, name, email, checked)
        IN /\ Len(r.recipients) <= MaxStore + 1
           /\ recipients' = r.recipients
           /\ recipients_file' = r.file
           /\ UNCHANGED <<wiring, claude_client, email_sender, textVars, seqVars,
                            keyVars>>

UpdateRecipientStatus ==
    \E email \in Emails, checked \in BOOLEAN :
        LET r == update_recipient_status(recipients, recipients_file, email, checked)
        IN /\ recipients' = r.recipients
           /\ recipients_file' = r.file
           /\ UNCHANGED <<wiring, claude_client, email_sender, textVars, seqVars,
                            keyVars>>

\* RecipientManager.__init__: a new manager object reads the file.
NewRecipientManager ==
    /\ recipients' = load_recipients(recipients_file)
    /\ UNCHANGED <<wiring, claude_client, email_sender, recipients_file, textVars,
                   seqVars, keyVars>>

InitRecipients ==
    /\ InitSeq
    /\ wiring = "window"
    /\ claude_client = "client"
    /\ email_sender = "sender"
    /\ recipients_file \in Stores
    /\ recipients = load_recipients(recipients_file)
    /\ roster = << >>
    /\ recipients_txt = << >>
    /\ now = 58
    /\ key_press_times = << >>
    /\ config = DefaultConfig
    /\ config_file = load_config(NoFile).file
    /\ running = FALSE
    /\ listener = "None"
    /\ listeners = 0
    /\ held = {}
    /\ last_press = NoPress
    /\ last_release = NoRelease

NextRecipients ==
    \/ AddRecipient
    \/ UpdateRecipientStatus
    \/ NewRecipientManager

SpecRecipients == InitRecipients /\ [][NextRecipients]_vars

\* The triggered sequences on their own, with a main thread that keeps
\* running: the event loop fires every pending timer and every handler it
\* enters returns.  The buttons are left out: a button handler never sets
\* sequence_in_progress and never removes a pending callback.
NextLive ==
    \/ TriggerActionSequence
    \/ Sequence

SpecLive == Init /\ [][NextLive]_vars /\ WF_vars(Sequence)

\* The triggered sequences over more recipient files, among them files
\* whose recipients are all unchecked or invalid.
InitSilent ==
    /\ wiring \in {"window", "panels"}
    /\ claude_client \in {"None", "client"}
    /\ email_sender \in {"None", "sender"}
    /\ recipients_file \in Slices
    /\ recipients = load_recipients(recipients_file)
    /\ roster = << >>
    /\ recipients_txt = << >>
    /\ InitSeq
    /\ now = 58
    /\ key_press_times = << >>
    /\ config = DefaultConfig
    /\ config_file = load_config(NoFile).file
    /\ running = TRUE
    /\ listener = "Listener"
    /\ listeners = 1
    /\ held = {}
    /\ last_press = NoPress
    /\ last_release = NoRelease

SpecSilent == InitSilent /\ [][NextLive]_vars

----------------------------------------------------------------------------
\* Reading the history.

Seqs == 1 .. MaxTriggers

Has(seq, op) == \E i \in DOMAIN log[seq] : log[seq][i].op = op

HasWith(seq, op, ok) ==
    \E i \in DOMAIN log[seq] : log[seq][i].op = op /\ log[seq][i].ok = ok

Count(seq, op) == Cardinality({ i \in DOMAIN log[seq] : log[seq][i].op = op })

\* The stage an operation belongs to: 1 capture, 2 analysis, 3 email.
Stage(op) ==
    CASE op \in {"start_capture", "capture_screen", "on_capture_completed",
                 "process_image"} -> 1
      [] op \in {"start_claude_analysis", "send_to_claude", "ask_question",
                 "on_claude_completed"} -> 2
      [] op \in {"start_email_sending", "send_by_email", "_send_email_async",
                 "on_email_completed"} -> 3
      [] OTHER -> 0

\* A collaborator returned False, or a completion signal carried False.
Failure(e) ==
    /\ e.op \in {"capture_screen", "process_image", "send_to_claude", "send_by_email",
                 "on_capture_completed", "on_claude_completed", "on_email_completed"}
    /\ ~e.ok

\* The notes this step added to the history of seq.
NewNotes(seq) ==
    IF Len(log'[seq]) > Len(log[seq])
    THEN { log'[seq][i] : i \in Len(log[seq]) + 1 .. Len(log'[seq]) }
    ELSE {}

\* seq has run to its end.
Ended(seq) == log[seq] # << >> /\ ~InFlight(seq)

----------------------------------------------------------------------------
\* C1: at most one hotkey-triggered sequence is in flight at any time,
\* under every interleaving of the listener's triggers with the main
\* thread's stage operations and the user's button actions.
C1_AtMostOneSequenceInFlight ==
    Cardinality({ seq \in Seqs : InFlight(seq) }) <= 1

\* C2: a call of trigger_action_sequence while sequence_in_progress is True
\* changes nothing: the flag stays True, nothing is scheduled or queued, and
\* the main thread is where it was.
C2_TriggerWhileBusyIsNoOp ==
    [][ (sequence_in_progress /\ TriggerActionSequence)
            => /\ sequence_in_progress'
               /\ timers' = timers
               /\ main_pc' = main_pc
               /\ next_seq' = next_seq
               /\ <<question_text, response_text, captured_image, send_btn>>' =
                  <<question_text, response_text, captured_image, send_btn>> ]_vars

\* A trigger was ignored while a sequence was waiting for its next stage.
C2_Witness ==
    /\ dropped
    /\ sequence_in_progress
    /\ timers # << >>

\* C3: within a sequence the analysis collaborator is invoked only after the
\* capture completion signal with success was observed, and the email
\* collaborator only after the analysis completion signal with success.
C3_StagesInOrder ==
    \A seq \in Seqs : \A j \in DOMAIN log[seq] :
        /\ log[seq][j].op \in {"start_claude_analysis", "send_to_claude"}
            => \E i \in 1 .. j - 1 :
                    log[seq][i] = [op |-> "on_capture_completed", ok |-> TRUE]
        /\ log[seq][j].op \in {"start_email_sending", "send_by_email"}
            => \E i \in 1 .. j - 1 :
                    log[seq][i] = [op |-> "on_claude_completed", ok |-> TRUE]
        /\ log[seq][j].op = "on_capture_completed"
            => \E i \in 1 .. j - 1 : log[seq][i].op = "capture_screen"

\* A sequence went through all three stages.
C3_Witness ==
    \E seq \in Seqs : Has(seq, "send_by_email") /\ Has(seq, "on_email_completed")

\* After a failure nothing of a later stage is in the history of the sequence.
NoLaterStageAfterFailure ==
    \A seq \in Seqs : \A i, j \in DOMAIN log[seq] :
        (i < j /\ Failure(log[seq][i]))
            => Stage(log[seq][j].op) <= Stage(log[seq][i].op)

\* C4: when a stage fails, by its collaborator returning False or by its
\* completion signal carrying False, no operation of a later stage runs for
\* that sequence, and the step that meets the failure leaves
\* sequence_in_progress False.
C4_AbortOnFailure ==
    /\ []NoLaterStageAfterFailure
    /\ [][ \A seq \in Seqs :
              (\E e \in NewNotes(seq) : Failure(e)) => ~sequence_in_progress' ]_vars

\* A capture failed and its sequence ended without analysis or email.
C4_Witness ==
    \E seq \in Seqs :
        /\ Ended(seq)
        /\ HasWith(seq, "capture_screen", FALSE)
        /\ ~Has(seq, "send_to_claude")
        /\ ~Has(seq, "send_by_email")
        /\ ~sequence_in_progress

\* A sequence that ended with every call and every signal successful.
AllSucceeded(seq) ==
    /\ Ended(seq)
    /\ Has(seq, "on_email_completed")
    /\ \A i \in DOMAIN log[seq] : log[seq][i].ok

\* C5: in a sequence in which capture, analysis and every email succeed,
\* each stage operation and each completion handler runs exactly once,
\* however many checked and valid recipients there are, and the sequence
\* ends with sequence_in_progress False.
C5_EachStageExactlyOnce ==
    \A seq \in Seqs :
        AllSucceeded(seq) =>
            /\ \A op \in {"start_capture", "start_claude_analysis", "start_email_sending",
                          "on_capture_completed", "on_claude_completed",
                          "on_email_completed"} : Count(seq, op) = 1
            /\ ~sequence_in_progress

\* C6: if the LLM call of the analysis stage fails, the analysis completion
\* signal carries False and the email stage is never started.
C6_ApiFailureAborts ==
    \A seq \in Seqs : \A i, j \in DOMAIN log[seq] :
        (i < j /\ log[seq][i] = [op |-> "ask_question", ok |-> FALSE])
            => /\ log[seq][j].op = "on_claude_completed" => ~log[seq][j].ok
               /\ Stage(log[seq][j].op) # 3

\* C7: no operation that runs as part of a hotkey-triggered sequence opens
\* a modal dialog.
C7_NoModalInSequence ==
    \A seq \in Seqs : ~Has(seq, "QMessageBox")

\* C8: every accepted trigger is followed by sequence_in_progress being
\* False again, as long as the main thread keeps running; and
\* on_email_completed leaves the flag False whatever its argument.
C8_SequenceEnds ==
    /\ sequence_in_progress ~> ~sequence_in_progress
    /\ [][ \A seq \in Seqs :
              (\E e \in NewNotes(seq) : e.op = "on_email_completed")
                  => ~sequence_in_progress' ]_vars

\* A sequence whose mail failed has ended and the flag is False.
C8_Witness ==
    \E seq \in Seqs :
        /\ Ended(seq)
        /\ HasWith(seq, "on_email_completed", FALSE)
        /\ ~sequence_in_progress

\* C9: releasing the activation key calls trigger_action_sequence exactly
\* when the time from the recorded press to the release is at least the
\* configured hold duration: at the duration itself it does, below it not.
C9_HoldThreshold ==
    [][ \A k \in Keys :
          ( /\ OnKeyRelease
            /\ last_release'.key = k
            /\ is_enabled(config)
            /\ k \in DOMAIN key_press_times
            /\ k = get_activation_key(now) )
          => /\ last_release'.trigger
                    <=> (Tenths(now - key_press_times[k]) >= get_hold_duration(config))
             /\ last_release'.trigger
                    => /\ sequence_in_progress'
                       /\ ~sequence_in_progress => Len(timers') = Len(timers) + 1
             /\ ~last_release'.trigger => UNCHANGED <<sequence_in_progress, timers>> ]_vars

\* The activation key was released after exactly the configured duration
\* and the sequence was triggered.
C9_Witness ==
    /\ last_release.trigger
    /\ Tenths(last_release.hold) = get_hold_duration(config)
    /\ sequence_in_progress

\* C10: a tracked key held long enough triggers exactly when it is the ones
\* digit of the wall-clock minute in which it is released, whatever the
\* minute was when it was pressed.
C10_KeyOfReleaseMinute ==
    [][ \A k \in Keys :
          ( /\ OnKeyRelease
            /\ last_release'.key = k
            /\ is_enabled(config)
            /\ k \in DOMAIN key_press_times
            /\ Tenths(now - key_press_times[k]) >= get_hold_duration(config) )
          => (last_release'.trigger <=> k = ToString(((now \div 60) % 60) % 10)) ]_vars

\* A key triggered that was not the activation key when it was pressed.
C10_Witness ==
    /\ last_release.trigger
    /\ last_release.key # ToString((((now - last_release.hold) \div 60) % 60) % 10)

\* C11: releasing a digit key that is not the activation key of the moment
\* never calls trigger_action_sequence, however long the key was held.
C11_OtherDigitNeverTriggers ==
    [][ \A k \in number_keys :
          ( /\ OnKeyRelease
            /\ last_release'.key = k
            /\ k # get_activation_key(now) )
          => /\ ~last_release'.trigger
             /\ UNCHANGED seqVars ]_vars

\* A digit key that is not the activation key was released after a hold of
\* at least the configured duration, and nothing was triggered.
C11_Witness ==
    /\ last_release.tracked
    /\ last_release.key \in number_keys
    /\ last_release.key # get_activation_key(now)
    /\ Tenths(last_release.hold) >= get_hold_duration(config)
    /\ ~last_release.trigger
    /\ ~sequence_in_progress

\* C12: in every reachable state of the listener, a key-down on the
\* activation key followed at once by its key-up (the key was up before, and
\* no time passes) does not call trigger_action_sequence when the required
\* hold duration is greater than 0.
C12_ImmediateReleaseNeverTriggers ==
    [][ \A k \in Keys :
          ( /\ OnKeyRelease
            /\ last_release'.key = k
            /\ last_press = [key |-> k, fresh |-> TRUE]
            /\ k = get_activation_key(now)
            /\ get_hold_duration(config) > 0 )
          => ~last_release'.trigger ]_vars

\* C13: for a key that is not one of the ten digit characters, on_key_press
\* and on_key_release leave key_press_times unchanged and do not call
\* trigger_action_sequence.
C13_OtherKeysAreNoOps ==
    /\ [][ (OnKeyPress /\ last_press'.key \notin number_keys)
              => UNCHANGED <<key_press_times, seqVars>> ]_vars
    /\ [][ (OnKeyRelease /\ last_release'.key \notin number_keys)
              => /\ UNCHANGED <<key_press_times, seqVars>>
                 /\ ~last_release'.trigger ]_vars

\* A key that is not a digit was released while the hotkey was enabled and
\* a digit key was being tracked.
C13_Witness ==
    /\ last_release.key \in Keys \ number_keys
    /\ is_enabled(config)
    /\ key_press_times # << >>

\* C14: when the enabled flag is false and a key has an outstanding press
\* record, the next event for that key removes the record.
C14_DisabledEventDropsRecord ==
    [][ \A k \in DigitKeys :
          ( /\ \/ OnKeyRelease /\ last_release'.key = k
               \/ OnKeyPress /\ last_press'.key = k
            /\ ~is_enabled(config)
            /\ k \in DOMAIN key_press_times )
          => k \notin DOMAIN key_press_times' ]_vars

\* What a HotkeyConfig built from the file now would hold.
Stored == load_config(config_file).cfg

\* C15: after save_settings has stored new values of enabled and
\* hold_duration, the next key event uses them: on_key_press tracks a digit
\* key exactly when the stored flag is true, and on_key_release measures the
\* hold against the stored duration.
C15_KeyEventsUseStoredSettings ==
    /\ [][ \A k \in DigitKeys :
              ( /\ OnKeyPress
                /\ last_press'.key = k
                /\ k \notin DOMAIN key_press_times )
              => (k \in DOMAIN key_press_times' <=> is_enabled(Stored)) ]_vars
    /\ [][ \A k \in DigitKeys :
              ( /\ OnKeyRelease
                /\ last_release'.key = k
                /\ k \in DOMAIN key_press_times
                /\ is_enabled(Stored)
                /\ k = get_activation_key(now) )
              => (last_release'.trigger
                    <=> Tenths(now - key_press_times[k]) >= get_hold_duration(Stored)) ]_vars

\* What a new HotkeyConfig on the file as the step leaves it would hold.
Fresh == load_config(config_file').cfg

\* C16: round trip.  After set_enabled(e) has succeeded the object holds e
\* and a new object on the same file returns e from is_enabled and the
\* object's hold duration from get_hold_duration; after
\* set_hold_duration(d) has succeeded a new object returns d from
\* get_hold_duration and the object's flag from is_enabled.  So after both
\* have succeeded, in either order, a new object returns both values.
C16_RoundTrip ==
    /\ [][ \A e \in BOOLEAN :
              SetEnabledTo(e, TRUE)
              => /\ ~is_enabled_raises(config') /\ is_enabled(config') = e
                 /\ ~is_enabled_raises(Fresh) /\ is_enabled(Fresh) = e
                 /\ get_hold_duration_raises(Fresh) = get_hold_duration_raises(config)
                 /\ get_hold_duration(Fresh) = get_hold_duration(config) ]_vars
    /\ [][ \A d \in Durations :
              SetHoldDurationTo(d, TRUE)
              => /\ ~get_hold_duration_raises(config') /\ get_hold_duration(config') = d
                 /\ ~get_hold_duration_raises(Fresh) /\ get_hold_duration(Fresh) = d
                 /\ is_enabled_raises(Fresh) = is_enabled_raises(config)
                 /\ is_enabled(Fresh) = is_enabled(config) ]_vars

\* Both setters have written the file: it holds "false" and "1.5", which
\* only they can have put there, and a new object reads them back.
C16_Witness ==
    /\ config_file = Ini([enabled |-> TextFalse, hold_duration |-> StrFloat(15)])
    /\ ~is_enabled(load_config(config_file).cfg)
    /\ get_hold_duration(load_config(config_file).cfg) = 15

\* C17: get_hold_duration never raises; it returns the stored value when
\* that is a number and the default of 2 seconds when the option is missing
\* or its value is not a number.
C17_HoldDurationOrDefault ==
    /\ ~get_hold_duration_raises(config)
    /\ IF config.hold_duration # NoOption /\ ParseFloat(config.hold_duration) # -1
       THEN get_hold_duration(config) = ParseFloat(config.hold_duration)
       ELSE get_hold_duration(config) = Tenths(2)

\* C18: when the enabled option is missing or is a string other than "true"
\* and "false", is_enabled returns True, the default set_defaults writes.
C18_EnabledDefaultsToTrue ==
    config.enabled \notin {TextTrue, TextFalse}
        => /\ ~is_enabled_raises(config)
           /\ is_enabled(config)
           /\ is_enabled(set_defaults)

\* C19: get_checked_recipients returns exactly the recipients of the list
\* that are checked and whose address passes validation, each once and in
\* the order of the list.
C19_CheckedAndValidInOrder ==
    LET result == get_checked_recipients(recipients)
        wanted == { i \in DOMAIN recipients :
                      recipients[i].checked /\ validate_email(recipients[i].email) }
    IN /\ Len(result) = Cardinality(wanted)
       /\ \E f \in [DOMAIN result -> wanted] :
             /\ \A i, j \in DOMAIN result : i < j => f[i] < f[j]
             /\ \A i \in DOMAIN result : result[i] = recipients[f[i]]

\* The list holds a checked recipient with a valid address, a checked one
\* whose address fails validation and an unchecked one with a valid address,
\* and only the first is returned.
C19_Witness ==
    \E i, j, k \in DOMAIN recipients :
        /\ recipients[i].checked /\ validate_email(recipients[i].email)
        /\ recipients[j].checked /\ ~validate_email(recipients[j].email)
        /\ ~recipients[k].checked /\ validate_email(recipients[k].email)
        /\ get_checked_recipients(recipients) = << recipients[i] >>

\* No line of recipients.txt is checked with an address that passes
\* validation.
NoneSelected ==
    \A i \in DOMAIN recipients_file :
        ~(recipients_file[i].checked /\ validate_email(recipients_file[i].email))

\* C20: in silent mode, when no stored recipient is both checked and valid,
\* send_by_email returns False and sends no email, the flag
\* sequence_in_progress is False when it returns, and start_email_sending
\* then ends the sequence with the flag False: nothing of the sequence is
\* left pending.
C20_NoRecipientsAborts ==
    /\ [][ \A seq \in Seqs :
              ( /\ NoneSelected
                /\ \E e \in NewNotes(seq) : e.op = "send_by_email" )
              => /\ \A e \in NewNotes(seq) : e.op = "send_by_email" => ~e.ok
                 /\ \A e \in NewNotes(seq) : e.op # "_send_email_async"
                 /\ main_pc' = At("start_email_sending", seq, 0)
                 /\ ~sequence_in_progress' ]_vars
    /\ [][ \A seq \in Seqs :
              ( /\ NoneSelected
                /\ main_pc = At("start_email_sending", seq, 0)
                /\ main_pc' # main_pc )
              => /\ main_pc' = Idle
                 /\ ~sequence_in_progress'
                 /\ log'[seq] = log[seq]
                 /\ \A i \in DOMAIN timers' : timers'[i].seq # seq ]_vars

\* A sequence whose capture and analysis succeeded has ended in the email
\* stage, with a sender and content present, on a file that holds
\* recipients none of whom is checked and valid.
C20_Witness ==
    \E seq \in Seqs :
        /\ NoneSelected
        /\ recipients_file # << >>
        /\ email_sender = "sender"
        /\ question_text # ""
        /\ response_text # ""
        /\ HasWith(seq, "on_claude_completed", TRUE)
        /\ HasWith(seq, "send_by_email", FALSE)
        /\ HasWith(seq, "on_email_completed", FALSE)
        /\ ~Has(seq, "_send_email_async")
        /\ main_pc = Idle
        /\ ~InFlight(seq)
        /\ ~sequence_in_progress

\* C21: start and stop are idempotent.  At most one listener thread exists,
\* one exists exactly when running is True, and the service holds it; start
\* on a running service and stop on a stopped one leave the service as it
\* is.
C21_StartStopIdempotent ==
    /\ [](listeners <= 1)
    /\ [](running <=> listeners = 1)
    /\ [](running <=> listener # "None")
    /\ [][ Start /\ running => UNCHANGED svcVars ]_vars
    /\ [][ Stop /\ ~running => UNCHANGED svcVars ]_vars
    /\ [][ Start => running' /\ listeners' = 1 ]_vars
    /\ [][ Stop => ~running' /\ listeners' = 0 ]_vars

\* The service is running again after it was stopped with a key recorded:
\* stop and start have both acted.
C21_Witness ==
    /\ running
    /\ listeners = 1
    /\ key_press_times # << >>
    /\ held = {}

\* seq has captured its image and is between its stages or in one.
Owns(seq) == HasWith(seq, "capture_screen", TRUE) /\ InFlight(seq)

\* C22: from a sequence's capture to its end only that sequence's own steps
\* write the captured image and the question text, so the text its email
\* stage reads is not one the user typed and the image it reads is not one
\* a button press captured.
C22_OnlyTheSequenceWritesSharedData ==
    /\ [][ \A seq \in Seqs :
              ( /\ Owns(seq)
                /\ <<question_text, captured_image>>' # <<question_text, captured_image>> )
              => NewNotes(seq) # {} ]_vars
    /\ [][ \A seq \in Seqs :
              (\E e \in NewNotes(seq) : e.op = "send_by_email" /\ e.ok)
              => /\ question_text \notin {"", "user text"}
                 /\ captured_image # Image(0) ]_vars

\* C23: trigger_action_sequence, on the listener thread, runs no stage
\* operation, collaborator or completion handler: it leaves the widgets and
\* the main thread's position alone, and when it accepts the trigger it
\* sets the flag and queues start_capture with delay 0 behind the pending
\* timers.  Every stage operation, collaborator call and completion handler
\* runs in a handler of the main thread's event loop, which leaves the
\* listener's state alone.
C23_TriggerOnlySchedules ==
    /\ [][ TriggerActionSequence
              => /\ \A seq \in Seqs : NewNotes(seq) = {}
                 /\ UNCHANGED <<main_pc, question_text, response_text,
                                captured_image, send_btn>>
                 /\ sequence_in_progress'
                 /\ timers' = IF sequence_in_progress THEN timers
                              ELSE Append(timers, [fn |-> "start_capture", delay |-> 0,
                                                   seq |-> next_seq', emit_signal |-> TRUE]) ]_vars
    /\ [][ (\E seq \in Seqs : NewNotes(seq) # {})
              => /\ MainThread \/ User
                 /\ UNCHANGED <<keyVars, next_seq, dropped>> ]_vars

\* A trigger was accepted while the main thread was inside a handler: its
\* start_capture waits in the event loop and nothing has run for it.
C23_Witness ==
    \E i \in DOMAIN timers :
        /\ timers[i].fn = "start_capture"
        /\ log[timers[i].seq] = << >>
        /\ main_pc # Idle
        /\ sequence_in_progress

\* C24: in the step in which a collaborator call of a sequence returns False
\* no completion handler runs for that sequence; a completion handler runs
\* only in a step that goes on with an operation the collaborator had
\* started (the call had returned True, or the sending loop was entered).
C24_FalseReturnOrSignal ==
    [][ \A seq \in Seqs :
          \A e \in NewNotes(seq) :
              ( /\ e.op \in {"capture_screen", "send_to_claude", "send_by_email"}
                /\ ~e.ok )
              => \A f \in NewNotes(seq) :
                    f.op \notin {"on_capture_completed", "on_claude_completed",
                                 "on_email_completed"} ]_vars

\* The pending callbacks a button's operation scheduled.
OfButtons(q) == { i \in DOMAIN q : q[i].seq = 0 }

\* C25: a collaborator operation a button started (emit_signal=False), and
\* the callback it scheduled, never change sequence_in_progress.
C25_ButtonsLeaveTheFlag ==
    [][ ( \/ clicks' # clicks
          \/ Cardinality(OfButtons(timers')) < Cardinality(OfButtons(timers)) )
        => sequence_in_progress' = sequence_in_progress ]_vars

C27_HoldDurationInRange ==
    ~get_hold_duration_raises(config)
        => /\ get_hold_duration(config) >= 5
           /\ get_hold_duration(config) <= Tenths(10)

\* What the OCR step leaves in the question box when it has no text.
Placeholders == {"No image captured yet", "No text found in the image",
                 "Failed to process image", "Error processing image"}

\* C28: when a sequence's capture succeeds and the OCR step leaves a
\* placeholder or an error message instead of a question, the sequence ends
\* there, with the flag False and nothing of it pending; and a sequence
\* never calls send_to_claude with such a text in the question box.
C28_OcrFailureAborts ==
    /\ [][ \A seq \in Seqs :
              ( /\ \E e \in NewNotes(seq) : e.op = "capture_screen" /\ e.ok
                /\ question_text' \in Placeholders )
              => /\ ~sequence_in_progress'
                 /\ \A i \in DOMAIN timers' : timers'[i].seq # seq ]_vars
    /\ [][ \A seq \in Seqs :
              (\E e \in NewNotes(seq) : e.op = "send_to_claude")
              => question_text \notin Placeholders ]_vars

\* C29: when add_recipient or update_recipient_status has returned,
\* recipients.txt holds the (name, email, checked) records of the manager's
\* list, so a new RecipientManager reads the same list.
C29_StoreFollowsMemory ==
    [][ (AddRecipient \/ UpdateRecipientStatus)
        => /\ recipients_file' = save_recipients(recipients')
           /\ load_recipients(recipients_file') = recipients' ]_vars

-----------------------------------------------------------------------------
\* recipients.txt as text: Recipient.to_line and Recipient.from_line.

\* longest name of a recipient, in characters
MaxName == 2
\* recipients in a manager's list
MaxRoster == 1

Chars == {"a", ",", " "}

RECURSIVE TextsUpTo(_)
TextsUpTo(n) ==
    IF n = 0 THEN { << >> }
    ELSE LET shorter == TextsUpTo(n - 1)
         IN shorter \cup { Append(t, c) : t \in { u \in shorter : Len(u) = n - 1 },
                                         c \in Chars }

LineNames  == TextsUpTo(MaxName)
LineEmails == { << "e" >>, << "e", "," >> }
LineRecipients == [name : LineNames, email : LineEmails, checked : BOOLEAN]

RECURSIVE ListsUpTo(_, _)
ListsUpTo(S, n) ==
    IF n = 0 THEN { << >> }
    ELSE LET shorter == ListsUpTo(S, n - 1)
         IN shorter \cup { Append(l, x) : l \in { u \in shorter : Len(u) = n - 1 },
                                         x \in S }

Rosters == ListsUpTo(LineRecipients, MaxRoster)

\* str.strip(): whitespace off both ends
RECURSIVE lstrip(_)
lstrip(text) ==
    IF text # << >> /\ Head(text) = " " THEN lstrip(Tail(text)) ELSE text

RECURSIVE rstrip(_)
rstrip(text) ==
    IF text # << >> /\ text[Len(text)] = " "
    THEN rstrip(SubSeq(text, 1, Len(text) - 1))
    ELSE text

strip(text) == rstrip(lstrip(text))

\* str.split(sep, maxsplit): cut at the first maxsplit separators
RECURSIVE split(_, _, _)
split(text, sep, maxsplit) ==
    LET at == { i \in DOMAIN text : text[i] = sep }
    IN IF maxsplit = 0 \/ at = {}
       THEN << text >>
       ELSE LET i == CHOOSE j \in at : \A k \in at : j <= k
            IN << SubSeq(text, 1, i - 1) >>
               \o split(SubSeq(text, i + 1, Len(text)), sep, maxsplit - 1)

\* Recipient.to_line
to_line(r) ==
    r.name \o << "," >> \o r.email \o << "," >>
    \o (IF r.checked THEN TextTrue ELSE TextFalse)

\* Recipient.from_line: << >> for None, else the one recipient
from_line(line) ==
    LET parts == split(strip(line), ",", 2)
    IN IF Len(parts) < 2
       THEN << >>
       ELSE << [name    |-> parts[1],
                email   |-> parts[2],
                checked |-> Len(parts) >= 3 /\ lower(parts[3]) = TextTrue] >>

\* save_recipients: one line per recipient
write_lines(list) == [i \in DOMAIN list |-> to_line(list[i])]

\* load_recipients: the recipients of the lines from_line accepts
RECURSIVE read_lines(_)
read_lines(lines) ==
    IF lines = << >> THEN << >>
    ELSE from_line(Head(lines)) \o read_lines(Tail(lines))

SaveRecipients ==
    /\ recipients_txt' = write_lines(roster)
    /\ UNCHANGED <<wiring, claude_client, email_sender, recipients_file, recipients,
                   roster, seqVars, keyVars>>

LoadRecipients ==
    /\ roster' = read_lines(recipients_txt)
    /\ UNCHANGED <<wiring, claude_client, email_sender, recipients_file, recipients,
                   recipients_txt, seqVars, keyVars>>

InitText ==
    /\ InitSeq
    /\ wiring = "window"
    /\ claude_client = "client"
    /\ email_sender = "sender"
    /\ recipients_file = << >>
    /\ recipients = << >>
    /\ roster \in Rosters
    /\ recipients_txt = << >>
    /\ now = 58
    /\ key_press_times = << >>
    /\ config = DefaultConfig
    /\ config_file = load_config(NoFile).file
    /\ running = FALSE
    /\ listener = "None"
    /\ listeners = 0
    /\ held = {}
    /\ last_press = NoPress
    /\ last_release = NoRelease

NextText ==
    \/ SaveRecipients
    \/ LoadRecipients

SpecText == InitText /\ [][NextText]_vars

\* C30: save_recipients followed by load_recipients yields the saved list:
\* the lines written for a list read back as the same (name, email, checked)
\* records, and from_line(to_line(r)) is r for every recipient of the list.
C30_RoundTrip ==
    [][ SaveRecipients
        => /\ read_lines(recipients_txt') = roster
           /\ \A i \in DOMAIN roster :
                  from_line(to_line(roster[i])) = << roster[i] >> ]_vars

====
